---- MODULE Spec2Model ----
(***************************************************************************)
(* Model of src/streamlit_app.py: one run of the dashboard script over the *)
(* selected file (normalise -> consolidate per employee -> filter ->        *)
(* overview -> manager rollup -> failing employees -> chart), and the       *)
(* re-run that a widget change triggers.                                    *)
(*                                                                         *)
(* Text is a sequence of one-character strings, so that strip / lower /     *)
(* title / startswith / split / replace are computed character by          *)
(* character.  A missing cell (pandas NaN) is the value NaN.  Percentages  *)
(* are kept in hundredths (80.00 is 8000).  pandas semantics are those of  *)
(* the 1.3 - 2.x line (astype(str) turns NaN into the text "nan").         *)
(* Row order of a grouped table is not represented: a table whose rows     *)
(* have unique keys is a set of records.  Grouping an empty frame gives an *)
(* empty table.  An uncaught exception ends the run (pc = "erro").         *)
(***************************************************************************)
EXTENDS Integers, Sequences, FiniteSets, TLC

\* ------------------------------------------------------------------ bounds
MaxRows == 5

\* rows of a file in the specification with re-runs
MaxRowsRerun == 3

\* ------------------------------------------------------------------ text
Lowers == <<"a","b","c","d","e","f","g","h","i","j","k","l","m",
            "n","o","p","q","r","s","t","u","v","w","x","y","z">>

Uppers == <<"A","B","C","D","E","F","G","H","I","J","K","L","M",
            "N","O","P","Q","R","S","T","U","V","W","X","Y","Z">>

NaN == <<"<NaN>">>

IsLower(c) == \E i \in 1..Len(Lowers) : Lowers[i] = c

IsUpper(c) == \E i \in 1..Len(Uppers) : Uppers[i] = c

IsCased(c) == IsLower(c) \/ IsUpper(c)

LowerChar(c) ==
    IF IsUpper(c) THEN Lowers[CHOOSE i \in 1..Len(Uppers) : Uppers[i] = c] ELSE c

UpperChar(c) ==
    IF IsLower(c) THEN Uppers[CHOOSE i \in 1..Len(Lowers) : Lowers[i] = c] ELSE c

\* str.lower()
Lower(s) == [i \in 1..Len(s) |-> LowerChar(s[i])]

\* str.title(): a cased character is upper-cased when it follows an uncased
\* one (or starts the text) and lower-cased otherwise
Title(s) ==
    [i \in 1..Len(s) |->
        IF i > 1 /\ IsCased(s[i-1]) THEN LowerChar(s[i]) ELSE UpperChar(s[i])]

RECURSIVE LStrip(_)
LStrip(s) == IF s # <<>> /\ Head(s) = " " THEN LStrip(Tail(s)) ELSE s

RECURSIVE RStrip(_)
RStrip(s) ==
    IF s # <<>> /\ s[Len(s)] = " " THEN RStrip(SubSeq(s, 1, Len(s) - 1)) ELSE s

\* str.strip()
Strip(s) == RStrip(LStrip(s))

\* str.replace(a, b) for one-character a and b
Replace(s, a, b) == [i \in 1..Len(s) |-> IF s[i] = a THEN b ELSE s[i]]

\* str.replace(a, "") for a one-character a
RECURSIVE Remove(_, _)
Remove(s, a) ==
    IF s = <<>> THEN <<>>
    ELSE IF Head(s) = a THEN Remove(Tail(s), a)
    ELSE <<Head(s)>> \o Remove(Tail(s), a)

\* str.split(sep)[0]
RECURSIVE SplitFirst(_, _)
SplitFirst(s, sep) ==
    IF s = <<>> \/ Head(s) = sep THEN <<>>
    ELSE <<Head(s)>> \o SplitFirst(Tail(s), sep)

\* str.startswith(p)
StartsWith(s, p) == Len(s) >= Len(p) /\ SubSeq(s, 1, Len(p)) = p

\* astype(str) on an object column: NaN becomes the text "nan"
AsStr(x) == IF x = NaN THEN <<"n","a","n">> ELSE x

\* a + b on object columns: a missing operand gives a missing result
Concat(a, b) == IF a = NaN \/ b = NaN THEN NaN ELSE a \o b

\* ------------------------------------------------------------------ utilities
normalizar_colunas(name) == Remove(Replace(Lower(Strip(name)), " ", "_"), "?")

normalizar_texto(x) == Lower(Strip(AsStr(x)))

formatar_nome(x) == Title(Strip(AsStr(x)))

\* ------------------------------------------------------------------ literals
T_email == <<"e","m","a","i","l">>

T_first_name == <<"f","i","r","s","t","_","n","a","m","e">>

T_last_name == <<"l","a","s","t","_","n","a","m","e">>

T_manager_name == <<"m","a","n","a","g","e","r","_","n","a","m","e">>

T_department == <<"d","e","p","a","r","t","m","e","n","t">>

T_training_status == <<"t","r","a","i","n","i","n","g","_","s","t","a","t","u","s">>

T_nome_funcionario == <<"n","o","m","e","_","f","u","n","c","i","o","n","a","r","i","o">>

T_tipo == <<"t","i","p","o">>

T_concluido == <<"c","o","n","c","l","u","i","d","o">>

T_extern == <<"e","x","t","e","r","n">>

T_completed == <<"c","o","m","p","l","e","t","e","d">>

\* ------------------------------------------------------------------ input files
\* Raw cell values the selected file may hold.
AliceEmail == <<"a","l","i","c","e","@","e","x","t","e","r","n","c","o",".","c","o","m">>

ExternEmail == <<" ","E","x","t","e","r","n",".","B","o","b","@","X",".","c","o","m">>

AliceRuido == <<" ","A","l","i","c","e","@","E","x","t","e","r","n","C","o",".","C","O","M">>

RawEmails == <<AliceEmail, AliceRuido, ExternEmail, NaN>>

RawManagers == <<<<"b","o","b">>, <<"C","A","R","O","L"," ">>>>

RawStatus == <<<<"C","o","m","p","l","e","t","e","d">>,
               <<"N","o","t"," ","S","t","a","r","t","e","d">>>>

RawDepartment == <<" ","s","a","l","e","s">>

RawFirst(e) ==
    IF e = AliceEmail THEN <<"a","l","i","c","e">>
    ELSE IF e = AliceRuido THEN <<"A","L","I","C","E">>
    ELSE IF e = ExternEmail THEN <<"B","O","B">>
    ELSE NaN

RawLast(e) ==
    IF e = AliceEmail THEN <<"s","m","i","t","h"," ">>
    ELSE IF e = AliceRuido THEN <<"S","m","i","t","h">>
    ELSE IF e = ExternEmail THEN <<"l","e","e">>
    ELSE NaN

\* Raw headers: every column (with the spelling noise normalizar_colunas
\* removes), no name columns, and one of the other columns missing.
H_email == <<" ","E","m","a","i","l">>

H_first == <<"F","i","r","s","t"," ","N","a","m","e">>

H_last == <<"L","a","s","t"," ","N","a","m","e">>

H_manager == <<"M","a","n","a","g","e","r"," ","N","a","m","e">>

H_department == <<"D","e","p","a","r","t","m","e","n","t"," ">>

H_status == <<"T","r","a","i","n","i","n","g"," ","S","t","a","t","u","s","?">>

Headers ==
    { <<H_email, H_first, H_last, H_manager, H_department, H_status>>,
      <<T_email, T_manager_name, T_department, T_training_status>>,
      <<T_manager_name, T_department, T_training_status>>,
      <<T_email, T_department, T_training_status>>,
      <<T_email, T_manager_name, T_training_status>>,
      <<T_email, T_manager_name, T_department>> }

\* The kinds of raw rows, <<email, manager, status>> as indexes into the raw
\* values: the two spellings of alice under bob, the extern address under
\* carol, and rows without an email under either manager.
RowKinds ==
    { <<1, 1, 1>>, <<1, 1, 2>>, <<2, 1, 1>>, <<2, 1, 2>>,
      <<3, 2, 1>>, <<3, 2, 2>>, <<4, 1, 2>>, <<4, 2, 2>> }

KindLeq(a, b) ==
    \/ a[1] < b[1]
    \/ a[1] = b[1] /\ a[2] < b[2]
    \/ a[1] = b[1] /\ a[2] = b[2] /\ a[3] <= b[3]

\* Files are enumerated up to the order of their rows: the rows of a file are
\* listed in the order of RowKinds.
RECURSIVE KindSeqs(_)
KindSeqs(n) ==
    IF n = 0 THEN { <<>> }
    ELSE LET prev == KindSeqs(n - 1)
             full == { p \in prev : Len(p) = n - 1 }
         IN  prev \cup
             UNION { { Append(q, k) :
                         k \in { x \in RowKinds : q = <<>> \/ KindLeq(q[Len(q)], x) } }
                     : q \in full }

RawCell(col, k) ==
    LET e == RawEmails[k[1]]
    IN  IF col = T_email THEN e
        ELSE IF col = T_first_name THEN RawFirst(e)
        ELSE IF col = T_last_name THEN RawLast(e)
        ELSE IF col = T_manager_name THEN RawManagers[k[2]]
        ELSE IF col = T_department THEN RawDepartment
        ELSE RawStatus[k[3]]

\* The row of kind k in a file with header h.
RawRows ==
    [h \in Headers |->
        LET cols == [j \in 1..Len(h) |-> normalizar_colunas(h[j])]
        IN  [k \in RowKinds |-> [j \in 1..Len(h) |-> RawCell(cols[j], k)]]]

AllKindSeqs == KindSeqs(MaxRows)

Arquivos ==
    { [columns |-> h, rows |-> [i \in 1..Len(q) |-> RawRows[h][q[i]]]]
      : h \in Headers, q \in AllKindSeqs }

\* ------------------------------------------------------------------ data frames
HasCol(d, c) == \E i \in 1..Len(d.columns) : d.columns[i] = c

ColIdx(d, c) == CHOOSE i \in 1..Len(d.columns) : d.columns[i] = c

\* d[c]
Col(d, c) == [r \in 1..Len(d.rows) |-> d.rows[r][ColIdx(d, c)]]

\* d[c] = v
SetCol(d, c, v) ==
    IF HasCol(d, c)
    THEN [d EXCEPT !.rows =
            [r \in 1..Len(d.rows) |-> [d.rows[r] EXCEPT ![ColIdx(d, c)] = v[r]]]]
    ELSE [columns |-> Append(d.columns, c),
          rows    |-> [r \in 1..Len(d.rows) |-> Append(d.rows[r], v[r])]]

\* ------------------------------------------------------------------ arithmetic
LimiteAprovacao == 8000

\* round(num / den * 100, 2) in hundredths; numpy and Python round a tie to
\* the even digit
Round2(num, den) ==
    LET n == num * 10000
        q == n \div den
        r == n % den
    IN  IF 2 * r < den THEN q
        ELSE IF 2 * r > den THEN q + 1
        ELSE IF q % 2 = 0 THEN q ELSE q + 1

\* ------------------------------------------------------------------ normalisation
RenameColumns(d) ==
    [d EXCEPT !.columns = [j \in 1..Len(d.columns) |-> normalizar_colunas(d.columns[j])]]

\* The first column the normalisation block indexes that the frame lacks.
MissingColumn(d) ==
    IF ~HasCol(d, T_email) THEN T_email
    ELSE IF ~HasCol(d, T_manager_name) THEN T_manager_name
    ELSE IF ~HasCol(d, T_department) THEN T_department
    ELSE IF ~HasCol(d, T_training_status) THEN T_training_status
    ELSE <<>>

NomeDeEmail(e) == Title(Replace(SplitFirst(e, "@"), ".", " "))

NomeCompleto(d) ==
    LET f == Col(d, T_first_name)
        l == Col(d, T_last_name)
    IN  [r \in 1..Len(d.rows) |-> formatar_nome(Concat(Concat(f[r], <<" ">>), l[r]))]

tipo(x) == IF StartsWith(x, T_extern) THEN "Externo" ELSE "Interno"

concluido(x) == IF Lower(Strip(AsStr(x))) = T_completed THEN 1 ELSE 0

\* line 107
ComEmail(d) ==
    SetCol(d, T_email,
           [r \in 1..Len(d.rows) |-> normalizar_texto(Col(d, T_email)[r])])

\* lines 109-114
ComNome(d) ==
    SetCol(d, T_nome_funcionario,
           IF HasCol(d, T_first_name) /\ HasCol(d, T_last_name)
           THEN NomeCompleto(d)
           ELSE [r \in 1..Len(d.rows) |-> NomeDeEmail(Col(d, T_email)[r])])

\* line 116
ComGerente(d) ==
    SetCol(d, T_manager_name,
           [r \in 1..Len(d.rows) |-> formatar_nome(Col(d, T_manager_name)[r])])

\* line 117
ComDepartamento(d) ==
    SetCol(d, T_department,
           [r \in 1..Len(d.rows) |-> formatar_nome(Col(d, T_department)[r])])

\* lines 119-121
ComTipo(d) ==
    SetCol(d, T_tipo, [r \in 1..Len(d.rows) |-> tipo(Col(d, T_email)[r])])

\* lines 123-130
ComConcluido(d) ==
    SetCol(d, T_concluido,
           [r \in 1..Len(d.rows) |-> concluido(Col(d, T_training_status)[r])])

\* The frame as the block leaves it: every assignment made, or those made
\* before the first KeyError.
NormalizarDados(d) ==
    IF ~HasCol(d, T_email) THEN d
    ELSE LET d2 == ComNome(ComEmail(d))
         IN  IF ~HasCol(d2, T_manager_name) THEN d2
             ELSE LET d3 == ComGerente(d2)
                  IN  IF ~HasCol(d3, T_department) THEN d3
                      ELSE LET d5 == ComTipo(ComDepartamento(d3))
                           IN  IF ~HasCol(d5, T_training_status) THEN d5
                               ELSE ComConcluido(d5)

\* ------------------------------------------------------------------ consolidation
ChaveDaLinha(d, r) ==
    [email            |-> d.rows[r][ColIdx(d, T_email)],
     nome_funcionario |-> d.rows[r][ColIdx(d, T_nome_funcionario)],
     manager_name     |-> d.rows[r][ColIdx(d, T_manager_name)],
     department       |-> d.rows[r][ColIdx(d, T_department)],
     tipo             |-> d.rows[r][ColIdx(d, T_tipo)]]

RECURSIVE SomaConcluido(_, _, _)
SomaConcluido(d, k, r) ==
    IF r = 0 THEN 0
    ELSE SomaConcluido(d, k, r - 1)
         + (IF ChaveDaLinha(d, r) = k THEN d.rows[r][ColIdx(d, T_concluido)] ELSE 0)

\* Variant: the threshold taken as exclusive.
StatusDe_estrito(p) == IF p > LimiteAprovacao THEN "Aprovado" ELSE "Reprovado"

StatusDe(p) == IF p >= LimiteAprovacao THEN "Aprovado" ELSE "Reprovado"

\* Variant: grouping by email alone, the other key fields taken from the
\* first row of the email.
Consolidar_porEmail(d) ==
    { LET rs == { r \in 1..Len(d.rows) : ChaveDaLinha(d, r).email = e }
          k == ChaveDaLinha(d, CHOOSE r \in rs : \A q \in rs : r <= q)
          feitos == Cardinality({ r \in rs : d.rows[r][ColIdx(d, T_concluido)] = 1 })
          pct == Round2(feitos, Cardinality(rs))
      IN  [email              |-> k.email,
           nome_funcionario   |-> k.nome_funcionario,
           manager_name       |-> k.manager_name,
           department         |-> k.department,
           tipo               |-> k.tipo,
           total_treinamentos |-> Cardinality(rs),
           concluidos         |-> feitos,
           percentual         |-> pct,
           status             |-> IF pct >= LimiteAprovacao THEN "Aprovado"
                                  ELSE "Reprovado"]
      : e \in { ChaveDaLinha(d, r).email : r \in 1..Len(d.rows) } }

Consolidar(d) ==
    { LET total == Cardinality({ r \in 1..Len(d.rows) : ChaveDaLinha(d, r) = k })
          feitos == SomaConcluido(d, k, Len(d.rows))
          pct == Round2(feitos, total)
      IN  [email              |-> k.email,
           nome_funcionario   |-> k.nome_funcionario,
           manager_name       |-> k.manager_name,
           department         |-> k.department,
           tipo               |-> k.tipo,
           total_treinamentos |-> total,
           concluidos         |-> feitos,
           percentual         |-> pct,
           status             |-> StatusDe(pct)]
      : k \in { ChaveDaLinha(d, r) : r \in 1..Len(d.rows) } }

\* ------------------------------------------------------------------ views
Tipos == {"Interno", "Externo"}

FuncionariosFiltro(fs, sel) == { f \in fs : f.tipo \in sel }

\* groupby(["tipo", "status"]).size().unstack(fill_value=0): a row per tipo
\* present, a column per status present, 0 where the pair has no employee
Unstack(fs) ==
    LET idx  == { f.tipo : f \in fs }
        cols == { f.status : f \in fs }
    IN  [index   |-> idx,
         columns |-> cols,
         cell    |-> [t \in idx, c \in cols |->
                        Cardinality({ f \in fs : f.tipo = t /\ f.status = c })]]

\* resumo.loc[t, c] raises KeyError for a label the frame lacks
LocRaises(r, t, c) == t \notin r.index \/ c \notin r.columns

\* resumo.loc[t, c] if t in resumo.index else 0
Leitura(r, t, c) == IF t \in r.index THEN r.cell[t, c] ELSE 0

LeituraRaises(r, t, c) == t \in r.index /\ LocRaises(r, t, c)

\* The four reads of the overview, in the order the script makes them.
Leituras ==
    << <<"Interno", "Aprovado">>, <<"Interno", "Reprovado">>,
       <<"Externo", "Aprovado">>, <<"Externo", "Reprovado">> >>

PrimeiraFalha(r) ==
    IF \E i \in 1..Len(Leituras) : LeituraRaises(r, Leituras[i][1], Leituras[i][2])
    THEN CHOOSE i \in 1..Len(Leituras) :
            /\ LeituraRaises(r, Leituras[i][1], Leituras[i][2])
            /\ \A j \in 1..(i - 1) : ~LeituraRaises(r, Leituras[j][1], Leituras[j][2])
    ELSE 0

VisaoGeralDe(r) ==
    LET aprovados_internos  == Leitura(r, "Interno", "Aprovado")
        reprovados_internos == Leitura(r, "Interno", "Reprovado")
        aprovados_externos  == Leitura(r, "Externo", "Aprovado")
        reprovados_externos == Leitura(r, "Externo", "Reprovado")
        total_aprovados     == aprovados_internos + aprovados_externos
        total_reprovados    == reprovados_internos + reprovados_externos
        total_funcionarios  == total_aprovados + total_reprovados
    IN  [total_funcionarios   |-> total_funcionarios,
         total_aprovados      |-> total_aprovados,
         total_reprovados     |-> total_reprovados,
         percentual_aprovados |->
            IF total_funcionarios > 0
            THEN Round2(total_aprovados, total_funcionarios) ELSE 0]

\* Variant: the count of a cell taken without looking at tipo.
Conta_semTipo(fs, m, t, s) ==
    Cardinality({ f \in fs : f.manager_name = m /\ f.status = s })

Conta(fs, m, t, s) ==
    Cardinality({ f \in fs : f.manager_name = m /\ f.tipo = t /\ f.status = s })

GerentesDe(fs) ==
    { LET ai == Conta(fs, m, "Interno", "Aprovado")
          ri == Conta(fs, m, "Interno", "Reprovado")
          ae == Conta(fs, m, "Externo", "Aprovado")
          re == Conta(fs, m, "Externo", "Reprovado")
      IN  [manager_name         |-> m,
           aprovado_interno     |-> ai,
           reprovado_interno    |-> ri,
           aprovado_externo     |-> ae,
           reprovado_externo    |-> re,
           percentual_aprovados |-> Round2(ai + ae, ai + ri + ae + re)]
      : m \in { f.manager_name : f \in fs } }

ListaGerentes(fs) == { f.manager_name : f \in fs }

ReprovadosDe(fs, sel) ==
    { f \in fs : f.status = "Reprovado" /\ f.manager_name \in sel }

\* reprovados[[...the eight export columns...]]
Exportar(f) ==
    [nome_funcionario   |-> f.nome_funcionario,
     email              |-> f.email,
     manager_name       |-> f.manager_name,
     department         |-> f.department,
     tipo               |-> f.tipo,
     total_treinamentos |-> f.total_treinamentos,
     concluidos         |-> f.concluidos,
     percentual         |-> f.percentual]

\* sort_values("percentual"): ascending; the default sort is not stable, so
\* rows of equal percentual may come in any order
RECURSIVE SortValues(_)
SortValues(S) ==
    IF S = {} THEN { <<>> }
    ELSE UNION { { <<m>> \o t : t \in SortValues(S \ {m}) }
                 : m \in { x \in S : \A y \in S : x.percentual <= y.percentual } }

\* ------------------------------------------------------------------ state
VARIABLES
    arquivo,                \* the selected file: raw header and rows
    pc,                     \* the section of the script that runs next
    df,                     \* the data frame, normalised in place
    funcionarios,           \* one row per employee group
    tipo_selecionado,       \* what the "Tipo de vinculo" multiselect returned
    funcionarios_filtro,
    resumo,                 \* tipo x status counts of the overview
    visao,                  \* the overview metrics
    gerentes,               \* the manager rollup
    gerentes_selecionados,  \* what the manager multiselect returned
    export_df,              \* the failing employees, sorted, as exported
    grafico,                \* tipo x status counts of the chart
    erro,                   \* the exception that stopped the run, if any
    anterior                \* outputs of the previous run over the same file

vars ==
    <<arquivo, pc, df, funcionarios, tipo_selecionado, funcionarios_filtro, resumo,
      visao, gerentes, gerentes_selecionados, export_df, grafico, erro, anterior>>

Nenhum == [columns |-> <<>>, rows |-> <<>>]

SemResumo == [index |-> {}, columns |-> {}, cell |-> <<>>]

SemVisao ==
    [total_funcionarios |-> 0, total_aprovados |-> 0, total_reprovados |-> 0,
     percentual_aprovados |-> 0]

SemErro == [etapa |-> "", chave |-> <<>>]

SemAnterior ==
    [rodou |-> FALSE, tipo_selecionado |-> {}, funcionarios |-> {},
     resumo |-> SemResumo, visao |-> SemVisao, gerentes |-> {},
     grafico |-> SemResumo]

\* The names a fresh run of the script starts with.
Fresh ==
    /\ df = Nenhum
    /\ funcionarios = {}
    /\ tipo_selecionado = Tipos
    /\ funcionarios_filtro = {}
    /\ resumo = SemResumo
    /\ visao = SemVisao
    /\ gerentes = {}
    /\ gerentes_selecionados = {}
    /\ export_df = <<>>
    /\ grafico = SemResumo
    /\ erro = SemErro

Init ==
    /\ arquivo \in Arquivos
    /\ pc = "leitura"
    /\ Fresh
    /\ anterior = SemAnterior

\* lines 93-100: the selected file is read into df
Leitura_do_arquivo ==
    /\ pc = "leitura"
    /\ df' = arquivo
    /\ pc' = "normalizacao"
    /\ UNCHANGED <<arquivo, funcionarios, tipo_selecionado, funcionarios_filtro,
                   resumo, visao, gerentes, gerentes_selecionados, export_df,
                   grafico, erro, anterior>>

\* lines 102-130: column names, then the data; indexing a column the frame
\* lacks raises KeyError and the run stops
Normalizacao ==
    /\ pc = "normalizacao"
    /\ LET d == RenameColumns(df)
       IN  /\ df' = NormalizarDados(d)
           /\ IF MissingColumn(d) # <<>>
              THEN /\ erro' = [etapa |-> "normalizacao", chave |-> MissingColumn(d)]
                   /\ pc' = "erro"
              ELSE /\ erro' = erro
                   /\ pc' = "consolidacao"
    /\ UNCHANGED <<arquivo, funcionarios, tipo_selecionado, funcionarios_filtro,
                   resumo, visao, gerentes, gerentes_selecionados, export_df,
                   grafico, anterior>>

\* lines 135-152
Consolidacao ==
    /\ pc = "consolidacao"
    /\ funcionarios' = Consolidar(df)
    /\ pc' = "filtros"
    /\ UNCHANGED <<arquivo, df, tipo_selecionado, funcionarios_filtro, resumo, visao,
                   gerentes, gerentes_selecionados, export_df, grafico, erro,
                   anterior>>

\* Variant: the filter written back over the employee table.
Filtros_inplace ==
    /\ pc = "filtros"
    /\ \E sel \in SUBSET Tipos :
          /\ tipo_selecionado' = sel
          /\ funcionarios' = FuncionariosFiltro(funcionarios, sel)
          /\ funcionarios_filtro' = FuncionariosFiltro(funcionarios, sel)
    /\ pc' = "visao_geral"
    /\ UNCHANGED <<arquivo, df, resumo, visao, gerentes, gerentes_selecionados,
                   export_df, grafico, erro, anterior>>

\* lines 159-167: the multiselect returns any subset of its two options
Filtros ==
    /\ pc = "filtros"
    /\ \E sel \in SUBSET Tipos :
          /\ tipo_selecionado' = sel
          /\ funcionarios_filtro' = FuncionariosFiltro(funcionarios, sel)
    /\ pc' = "visao_geral"
    /\ UNCHANGED <<arquivo, df, funcionarios, resumo, visao, gerentes,
                   gerentes_selecionados, export_df, grafico, erro, anterior>>

\* lines 174-196
VisaoGeral ==
    /\ pc = "visao_geral"
    /\ resumo' = Unstack(funcionarios_filtro)
    /\ LET i == PrimeiraFalha(resumo')
       IN  IF i # 0
           THEN /\ erro' = [etapa |-> "visao_geral", chave |-> Leituras[i][2]]
                /\ visao' = visao
                /\ pc' = "erro"
           ELSE /\ erro' = erro
                /\ visao' = VisaoGeralDe(resumo')
                /\ pc' = "gerentes"
    /\ UNCHANGED <<arquivo, df, funcionarios, tipo_selecionado, funcionarios_filtro,
                   gerentes, gerentes_selecionados, export_df, grafico, anterior>>

\* lines 214-235
Gerentes ==
    /\ pc = "gerentes"
    /\ gerentes' = GerentesDe(funcionarios_filtro)
    /\ pc' = "reprovados"
    /\ UNCHANGED <<arquivo, df, funcionarios, tipo_selecionado, funcionarios_filtro,
                   resumo, visao, gerentes_selecionados, export_df, grafico, erro,
                   anterior>>

\* lines 254-285: the multiselect returns any subset of lista_gerentes
Reprovados ==
    /\ pc = "reprovados"
    /\ \E sel \in SUBSET ListaGerentes(funcionarios_filtro) :
          /\ gerentes_selecionados' = sel
          /\ export_df' \in
                SortValues({ Exportar(f) : f \in ReprovadosDe(funcionarios_filtro, sel) })
    /\ pc' = "grafico"
    /\ UNCHANGED <<arquivo, df, funcionarios, tipo_selecionado, funcionarios_filtro,
                   resumo, visao, gerentes, grafico, erro, anterior>>

\* lines 299-306
Grafico ==
    /\ pc = "grafico"
    /\ grafico' = Unstack(funcionarios_filtro)
    /\ pc' = "fim"
    /\ UNCHANGED <<arquivo, df, funcionarios, tipo_selecionado, funcionarios_filtro,
                   resumo, visao, gerentes, gerentes_selecionados, export_df, erro,
                   anterior>>

\* A widget changes and the script runs again from the top over the same
\* file, with fresh names; anterior keeps what the run that ended had produced.
Reexecutar ==
    /\ pc \in {"fim", "erro"}
    /\ anterior' =
          [rodou |-> TRUE, tipo_selecionado |-> tipo_selecionado,
           funcionarios |-> funcionarios, resumo |-> resumo, visao |-> visao,
           gerentes |-> gerentes, grafico |-> grafico]
    /\ pc' = "leitura"
    /\ df' = Nenhum
    /\ funcionarios' = {}
    /\ tipo_selecionado' = Tipos
    /\ funcionarios_filtro' = {}
    /\ resumo' = SemResumo
    /\ visao' = SemVisao
    /\ gerentes' = {}
    /\ gerentes_selecionados' = {}
    /\ export_df' = <<>>
    /\ grafico' = SemResumo
    /\ erro' = SemErro
    /\ UNCHANGED arquivo

Next ==
    \/ Leitura_do_arquivo
    \/ Normalizacao
    \/ Consolidacao
    \/ Filtros
    \/ VisaoGeral
    \/ Gerentes
    \/ Reprovados
    \/ Grafico

Spec == Init /\ [][Next]_vars

InitRerun == Init /\ Len(arquivo.rows) <= MaxRowsRerun

NextRerun == Next \/ Reexecutar

SpecRerun == InitRerun /\ [][NextRerun]_vars

\* ------------------------------------------------------------------ properties
Status == {"Aprovado", "Reprovado"}

\* The run has ended, normally or by an exception.
Terminou == pc \in {"fim", "erro"}

\* The consolidation section has run in this run.
Consolidado ==
    \/ pc \in {"filtros", "visao_geral", "gerentes", "reprovados", "grafico", "fim"}
    \/ pc = "erro" /\ erro.etapa = "visao_geral"

\* The overview section has been entered in this run.
PassouVisaoGeral ==
    \/ pc \in {"gerentes", "reprovados", "grafico", "fim"}
    \/ pc = "erro" /\ erro.etapa = "visao_geral"

Abs(x) == IF x < 0 THEN -x ELSE x

RECURSIVE SomaTotal(_)
SomaTotal(S) ==
    IF S = {} THEN 0
    ELSE LET f == CHOOSE x \in S : TRUE
         IN  f.total_treinamentos + SomaTotal(S \ {f})

\* The raw file has an email column / the four columns the script indexes.
TemEmail == HasCol(RenameColumns(arquivo), T_email)

TemColunas == MissingColumn(RenameColumns(arquivo)) = <<>>

\* The rows of the raw file whose email cell is missing.
LinhasSemEmail ==
    IF TemEmail
    THEN { r \in 1..Len(arquivo.rows) :
             arquivo.rows[r][ColIdx(RenameColumns(arquivo), T_email)] = NaN }
    ELSE {}

\* The file of the end-to-end scenario: five rows for alice@externco.com under
\* manager bob, four Completed and one Not Started.
ArquivoAlice ==
    /\ TemColunas
    /\ arquivo.rows =
          [i \in 1..5 |->
              RawRows[arquivo.columns][IF i <= 4 THEN <<1, 1, 1>> ELSE <<1, 1, 2>>]]

\* C1: after the overview section has run, every (tipo, status) read of the
\* category summary has succeeded - no KeyError - and an absent status of a
\* present tipo has read as 0 (the totals count every filtered employee).
C1_ResumoLeZero ==
    PassouVisaoGeral =>
        /\ erro.etapa # "visao_geral"
        /\ \A t \in resumo.index : \A c \in Status : ~LocRaises(resumo, t, c)
        /\ visao.total_funcionarios = Cardinality(funcionarios_filtro)

\* C2: the five alice rows give one employee with 5 trainings, 4 completed,
\* 80.00, Aprovado, category Externo, and with both categories selected the
\* finished run's rollup is the single row for Bob with aprovado_externo = 1,
\* the other counts 0 and 100.00.
C2_CenarioAlice ==
    ArquivoAlice =>
        /\ Consolidado =>
              /\ Cardinality(funcionarios) = 1
              /\ \A f \in funcionarios :
                    /\ f.total_treinamentos = 5
                    /\ f.concluidos = 4
                    /\ f.percentual = 8000
                    /\ f.status = "Aprovado"
                    /\ f.tipo = "Externo"
        /\ (Terminou /\ tipo_selecionado = Tipos) =>
              gerentes = { [manager_name         |-> <<"B","o","b">>,
                            aprovado_interno     |-> 0,
                            reprovado_interno    |-> 0,
                            aprovado_externo     |-> 1,
                            reprovado_externo    |-> 0,
                            percentual_aprovados |-> 10000] }

\* C3: every employee's percentual is concluidos / total * 100 to the nearest
\* hundredth, within [0, 100]; status is Aprovado exactly when the rounded
\* percentual is at least 80.00; 4 of 5 is Aprovado.
C3_PercentualEStatus ==
    \A f \in funcionarios :
        /\ 0 <= f.percentual /\ f.percentual <= 10000
        /\ 2 * Abs(f.percentual * f.total_treinamentos - f.concluidos * 10000)
              <= f.total_treinamentos
        /\ f.status \in Status
        /\ f.status = "Aprovado" <=> f.percentual >= 8000
        /\ (f.concluidos = 4 /\ f.total_treinamentos = 5) => f.status = "Aprovado"

C3_Witness ==
    \E f \in funcionarios :
        f.concluidos = 4 /\ f.total_treinamentos = 5 /\ f.status = "Aprovado"

\* C4: rows whose email is missing are normalised to the empty text and all
\* land in one employee row, whose total is the number of such rows.
C4_SemEmailUmGrupo ==
    (Consolidado /\ LinhasSemEmail # {}) =>
        \E f \in funcionarios :
            /\ f.email = <<>>
            /\ f.total_treinamentos = Cardinality(LinhasSemEmail)
            /\ \A g \in funcionarios : g.email = <<>> => g = f

\* C5: without an email column the run stops before any employee row exists;
\* with an email column the run never stops on an exception.
C5_SoEmailObrigatorio ==
    /\ ~TemEmail => (funcionarios = {} /\ pc \in {"leitura", "normalizacao", "erro"})
    /\ TemEmail => pc # "erro"

\* C6: in every rollup row the four counts add up to the number of filtered
\* employees of that manager, and percentual_aprovados is the approved share
\* of that sum, within 0.01 and within [0, 100].
C6_RollupConsistente ==
    \A g \in gerentes :
        LET soma == g.aprovado_interno + g.reprovado_interno
                    + g.aprovado_externo + g.reprovado_externo
            n == Cardinality({ f \in funcionarios_filtro :
                                  f.manager_name = g.manager_name })
        IN  /\ soma = n
            /\ soma >= 1
            /\ 0 <= g.percentual_aprovados /\ g.percentual_aprovados <= 10000
            /\ Abs(g.percentual_aprovados * soma
                   - (g.aprovado_interno + g.aprovado_externo) * 10000) <= soma

C6_Witness ==
    \E g \in gerentes :
        /\ g.aprovado_interno + g.reprovado_interno >= 1
        /\ g.aprovado_externo + g.reprovado_externo >= 1
        /\ g.percentual_aprovados \notin {0, 10000}

\* C7: when a run has ended, the rollup has exactly one row for each manager
\* of the filtered employees and no other row.
C7_UmaLinhaPorGerente ==
    Terminou =>
        /\ { g.manager_name : g \in gerentes } = ListaGerentes(funcionarios_filtro)
        /\ Cardinality(gerentes) = Cardinality(ListaGerentes(funcionarios_filtro))

\* C8: the employee table has exactly one row per distinct
\* (email, nome_funcionario, manager_name, department, tipo) of the normalised
\* rows; 1 <= total, 0 <= concluidos <= total; the totals add up to the number
\* of input rows.
C8_UmaLinhaPorGrupo ==
    Consolidado =>
        LET chave(f) == <<f.email, f.nome_funcionario, f.manager_name,
                          f.department, f.tipo>>
            linha(r) == <<Col(df, T_email)[r], Col(df, T_nome_funcionario)[r],
                          Col(df, T_manager_name)[r], Col(df, T_department)[r],
                          Col(df, T_tipo)[r]>>
            chaves   == { linha(r) : r \in 1..Len(df.rows) }
        IN  /\ { chave(f) : f \in funcionarios } = chaves
            /\ Cardinality(funcionarios) = Cardinality(chaves)
            /\ \A f \in funcionarios :
                  /\ 1 <= f.total_treinamentos
                  /\ 0 <= f.concluidos /\ f.concluidos <= f.total_treinamentos
            /\ SomaTotal(funcionarios) = Len(arquivo.rows)

C8_Witness ==
    /\ Consolidado
    /\ Cardinality(funcionarios) >= 2
    /\ Cardinality(funcionarios) < Len(arquivo.rows)
    /\ \E f, g \in funcionarios : f # g /\ f.email = g.email

\* C9: when a run has ended, the exported view holds exactly the filtered
\* employees that are Reprovado under a selected manager (every manager of the
\* filtered set when the multiselect was never changed), by non-decreasing
\* percentual.
C9_ReprovadosExatos ==
    Terminou =>
        LET sel == IF pc = "fim" THEN gerentes_selecionados
                   ELSE ListaGerentes(funcionarios_filtro)
        IN  /\ { export_df[i] : i \in 1..Len(export_df) } =
                  { Exportar(f) : f \in { x \in funcionarios :
                                            /\ x.tipo \in tipo_selecionado
                                            /\ x.status = "Reprovado"
                                            /\ x.manager_name \in sel } }
            /\ \A i \in 1..(Len(export_df) - 1) :
                  export_df[i].percentual <= export_df[i+1].percentual

\* C10: no section changes what an earlier section of the run produced, and
\* a run produces the same employee table as the run before it over the same
\* file, and the same summary, overview and rollup whenever the category
\* filter is the same.
C10_SoDependeDosFiltros ==
    [][ /\ (pc' # "leitura"
            /\ pc \in {"filtros", "visao_geral", "gerentes", "reprovados", "grafico"})
           => funcionarios' = funcionarios /\ df' = df
        /\ (pc' # "leitura" /\ pc \in {"visao_geral", "gerentes", "reprovados", "grafico"})
           => /\ funcionarios_filtro' = funcionarios_filtro
              /\ tipo_selecionado' = tipo_selecionado
        /\ (pc' # "leitura" /\ pc \in {"gerentes", "reprovados", "grafico"})
           => visao' = visao /\ resumo' = resumo
        /\ (pc' # "leitura" /\ pc \in {"reprovados", "grafico"})
           => gerentes' = gerentes
        /\ (pc' # "leitura" /\ pc = "grafico") => export_df' = export_df
        /\ (pc' \in {"fim", "erro"} /\ anterior.rodou)
           => /\ funcionarios' = anterior.funcionarios
              /\ tipo_selecionado' = anterior.tipo_selecionado
                 => /\ resumo' = anterior.resumo
                    /\ visao' = anterior.visao
                    /\ gerentes' = anterior.gerentes
                    /\ grafico' = anterior.grafico
      ]_vars

C10_Witness ==
    /\ pc = "fim"
    /\ anterior.rodou
    /\ anterior.tipo_selecionado # tipo_selecionado
    /\ anterior.gerentes # gerentes
    /\ funcionarios # {}
    /\ funcionarios = anterior.funcionarios

====
